---------------------------- MODULE Spec2Model ----------------------------
(***************************************************************************)
(* Comment extraction and comment-to-node association of syn-serde.        *)
(*                                                                         *)
(*   src/src/comment.rs              extract_comments,                     *)
(*                                   is_inside_string_literal              *)
(*   src/src/comment_association.rs  associate_comments_with_nodes and its *)
(*                                   three helpers                         *)
(*   src/src/lib.rs (mod file)       File::from_syn_with_comments,         *)
(*                                   collect_item_spans,                   *)
(*                                   apply_comment_associations            *)
(*                                                                         *)
(* A String of the program is a sequence of one-character strings; a node  *)
(* identifier is the sequence of its "_"-separated parts, so that          *)
(* format!("item_{}", 0) is <<"item", "0">> and format!("{}_block", id) is *)
(* Append(id, "block").  Option values are <<"None">> and <<"Some", v>>.   *)
(***************************************************************************)
EXTENDS Integers, Sequences, FiniteSets, TLC

VARIABLES source, extracted, comments, node_spans, associations, file,
          raw_span, span_info, measure, pc

vars == <<source, extracted, comments, node_spans, associations, file,
          raw_span, span_info, measure, pc>>

\* the variables of the SpanInfo methods
span_vars == <<raw_span, span_info, measure>>

(***************************************************************************)
(* Bounds of the model.                                                    *)
(***************************************************************************)
\* lines of a node span or of a comment handed to the associator: 1..MaxLine
MaxLine == 2
\* columns of a node span: 0..MaxCol; a comment may start one column further
MaxCol == 0
\* length of the node-span sequence handed to the associator
MaxNodes == 2
\* number of comments handed to the associator
MaxComments == 1

Lines == 1..MaxLine
Cols == 0..MaxCol
CommentCols == 0..(MaxCol + 1)

None == <<"None">>
Some(v) == <<"Some", v>>
IsSome(o) == o[1] = "Some"
Unwrap(o) == o[2]

Range(s) == {s[i] : i \in DOMAIN s}

(***************************************************************************)
(* SpanInfo (span.rs 43-56) and Comment (comment.rs 13-20).                *)
(***************************************************************************)
SpanInfo(sl, sc, el, ec) ==
    [start_offset |-> 0, end_offset |-> 0,
     start_line |-> sl, start_column |-> sc,
     end_line |-> el, end_column |-> ec]

Comment(text, span, kind) == [text |-> text, span |-> span, kind |-> kind]

\* node_id.ends_with("_block")
EndsWithBlock(node_id) ==
    Len(node_id) >= 2 /\ node_id[Len(node_id)] = "block"

(***************************************************************************)
(* Strings: a str is the sequence of its UTF-8 code units, so positions    *)
(* are 0-based byte positions, as the program's usize indices.  A code     *)
(* unit is the one-character string whose code point is the unit's value:  *)
(* an ASCII character stands for itself, the unit 0xC2 is the character    *)
(* U+00C2.  A character outside ASCII is the run of its two to four units. *)
(***************************************************************************)
\* s[a..b]
Slice(s, a, b) == SubSeq(s, a + 1, b)

\* s[from..].find(<<c1, c2>>), as a position of s
Find2(s, c1, c2, from) ==
    LET hits == {i \in from..(Len(s) - 2) : s[i + 1] = c1 /\ s[i + 2] = c2}
    IN  IF hits = {} THEN None
        ELSE Some(CHOOSE i \in hits : \A j \in hits : i <= j)

\* char::is_whitespace: the characters with the Unicode property White_Space,
\* each as the sequence of its UTF-8 code units.  xNN is the code unit 0xNN,
\* x0B the vertical tab U+000B.
White_Space ==
    LET x0B == ""
        x80 == ""
        x81 == ""
        x82 == ""
        x83 == ""
        x84 == ""
        x85 == ""
        x86 == ""
        x87 == ""
        x88 == ""
        x89 == ""
        x8A == ""
        x9A == ""
        x9F == ""
        xA0 == " "
        xA8 == "¨"
        xA9 == "©"
        xAF == "¯"
        xC2 == "Â"
        xE1 == "á"
        xE2 == "â"
        xE3 == "ã"
    IN  \* U+0009 to U+000D and U+0020
        {<<"\t">>, <<"\n">>, <<x0B>>, <<"\f">>, <<"\r">>, <<" ">>}
        \* U+0085 and U+00A0
        \cup {<<xC2, x85>>, <<xC2, xA0>>}
        \* U+1680
        \cup {<<xE1, x9A, x80>>}
        \* U+2000 to U+200A, U+2028, U+2029 and U+202F
        \cup {<<xE2, x80, b>> : b \in {x80, x81, x82, x83, x84, x85, x86, x87,
                                        x88, x89, x8A, xA8, xA9, xAF}}
        \* U+205F
        \cup {<<xE2, x81, x9F>>}
        \* U+3000
        \cup {<<xE3, x80, x80>>}

\* str::trim_start: white-space characters are dropped from the front
RECURSIVE TrimStart(_)
TrimStart(s) ==
    LET ws == {w \in White_Space : Len(w) <= Len(s) /\ SubSeq(s, 1, Len(w)) = w}
    IN  IF ws = {} THEN s
        ELSE TrimStart(SubSeq(s, Len(CHOOSE w \in ws : TRUE) + 1, Len(s)))

\* str::trim_end: white-space characters are dropped from the back
RECURSIVE TrimEnd(_)
TrimEnd(s) ==
    LET ws == {w \in White_Space :
                  Len(w) <= Len(s) /\ SubSeq(s, Len(s) - Len(w) + 1, Len(s)) = w}
    IN  IF ws = {} THEN s
        ELSE TrimEnd(SubSeq(s, 1, Len(s) - Len(CHOOSE w \in ws : TRUE)))

\* str::trim
Trim(s) == TrimEnd(TrimStart(s))

\* str::lines: the text between line feeds, a carriage return before a line
\* feed dropped, no empty last line after a final line feed
RECURSIVE SplitLines(_, _, _, _)
SplitLines(s, i, cur, acc) ==
    IF i > Len(s) THEN (IF cur = <<>> THEN acc ELSE Append(acc, cur))
    ELSE IF s[i] = "\n"
         THEN SplitLines(s, i + 1, <<>>,
                  Append(acc, IF cur # <<>> /\ cur[Len(cur)] = "\r"
                              THEN SubSeq(cur, 1, Len(cur) - 1) ELSE cur))
         ELSE SplitLines(s, i + 1, Append(cur, s[i]), acc)

StrLines(s) == SplitLines(s, 1, <<>>, <<>>)

(***************************************************************************)
(* comment.rs                                                              *)
(***************************************************************************)
\* the loop of is_inside_string_literal over the characters before pos;
\* st is <<in_string, escaped, quote_char>>
RECURSIVE QuoteScan(_, _, _, _)
QuoteScan(line, pos, i, st) ==
    IF i >= Len(line) \/ i >= pos THEN st
    ELSE LET c == line[i + 1]
             in_string == st[1]
             escaped == st[2]
             quote_char == st[3]
         IN  IF c \in {"\"", "'"} /\ ~escaped
             THEN IF IsSome(quote_char)
                  THEN IF c = Unwrap(quote_char)
                       THEN QuoteScan(line, pos, i + 1, <<FALSE, FALSE, None>>)
                       ELSE QuoteScan(line, pos, i + 1, <<in_string, FALSE, quote_char>>)
                  ELSE QuoteScan(line, pos, i + 1, <<TRUE, FALSE, Some(c)>>)
             ELSE IF c = "\\" /\ in_string
             THEN QuoteScan(line, pos, i + 1, <<in_string, ~escaped, quote_char>>)
             ELSE QuoteScan(line, pos, i + 1, <<in_string, FALSE, quote_char>>)

\* a variant that does not look at backslashes
RECURSIVE QuoteScanNoEscape(_, _, _, _)
QuoteScanNoEscape(line, pos, i, st) ==
    IF i >= Len(line) \/ i >= pos THEN st
    ELSE LET c == line[i + 1]
         IN  IF c \in {"\"", "'"}
             THEN IF IsSome(st[3])
                  THEN IF c = Unwrap(st[3])
                       THEN QuoteScanNoEscape(line, pos, i + 1, <<FALSE, FALSE, None>>)
                       ELSE QuoteScanNoEscape(line, pos, i + 1, st)
                  ELSE QuoteScanNoEscape(line, pos, i + 1, <<TRUE, FALSE, Some(c)>>)
             ELSE QuoteScanNoEscape(line, pos, i + 1, st)

is_inside_string_literal_no_escape(line, pos) ==
    QuoteScanNoEscape(line, pos, 0, <<FALSE, FALSE, None>>)[1]

\* a variant in which any quote closes the open literal
RECURSIVE QuoteScanAnyQuote(_, _, _, _)
QuoteScanAnyQuote(line, pos, i, st) ==
    IF i >= Len(line) \/ i >= pos THEN st
    ELSE LET c == line[i + 1]
         IN  IF c \in {"\"", "'"} /\ ~st[2]
             THEN QuoteScanAnyQuote(line, pos, i + 1, <<~st[1], FALSE, None>>)
             ELSE IF c = "\\" /\ st[1]
             THEN QuoteScanAnyQuote(line, pos, i + 1, <<st[1], ~st[2], None>>)
             ELSE QuoteScanAnyQuote(line, pos, i + 1, <<st[1], FALSE, None>>)

is_inside_string_literal_any_quote(line, pos) ==
    QuoteScanAnyQuote(line, pos, 0, <<FALSE, FALSE, None>>)[1]

is_inside_string_literal(line, pos) ==
    QuoteScan(line, pos, 0, <<FALSE, FALSE, None>>)[1]

\* The result of extracting: the comments, or a panic (a slice whose start
\* lies after its end).
Ok(cs) == <<"Ok", cs>>
Panic == <<"Panic">>
IsOk(r) == r[1] = "Ok"

\* a variant whose span starts at the comment's text, after the marker
line_comment_of_text_start(line, line_number) ==
    LET comment_start == Find2(line, "/", "/", 0)
    IN  IF IsSome(comment_start) /\ ~is_inside_string_literal(line, Unwrap(comment_start))
        THEN <<Comment(Trim(Slice(line, Unwrap(comment_start) + 2, Len(line))),
                       SpanInfo(line_number, Unwrap(comment_start) + 2, line_number, Len(line)),
                       "Line")>>
        ELSE <<>>

\* lines 41-61: the line comment of one line, if any
line_comment_of(line, line_number) ==
    LET comment_start == Find2(line, "/", "/", 0)
    IN  IF IsSome(comment_start) /\ ~is_inside_string_literal(line, Unwrap(comment_start))
        THEN <<Comment(Trim(Slice(line, Unwrap(comment_start) + 2, Len(line))),
                       SpanInfo(line_number, Unwrap(comment_start), line_number, Len(line)),
                       "Line")>>
        ELSE <<>>

\* lines 64-95: the while loop over the block comments of one line
RECURSIVE block_scan(_, _, _, _)
block_scan(line, line_number, search_start, acc) ==
    LET block_start == Find2(line, "/", "*", search_start)
    IN  IF ~IsSome(block_start) THEN Ok(acc)
        ELSE LET actual_start == Unwrap(block_start)
             IN  IF ~is_inside_string_literal(line, actual_start)
                 THEN LET block_end == Find2(line, "*", "/", actual_start)
                      IN  IF IsSome(block_end)
                          THEN LET actual_end == Unwrap(block_end)
                               IN  IF actual_start + 2 > actual_end
                                   THEN Panic
                                   ELSE block_scan(line, line_number, actual_end + 2,
                                            Append(acc,
                                                Comment(Trim(Slice(line, actual_start + 2, actual_end)),
                                                        SpanInfo(line_number, actual_start,
                                                                 line_number, actual_end + 2),
                                                        "Block")))
                          ELSE Ok(acc)
                 ELSE block_scan(line, line_number, actual_start + 1, acc)

\* a line's comments with the block comments ahead of the line comment (the
\* program pushes them the other way round, see extract_line)
extract_line_blocks_first(line, line_number) ==
    LET blocks == block_scan(line, line_number, 0, <<>>)
    IN  IF IsOk(blocks) THEN Ok(blocks[2] \o line_comment_of(line, line_number))
        ELSE Panic

\* the body of the for loop of extract_comments for one line: the line
\* comment is pushed first, the block comments of the line after it
extract_line(line, line_number) ==
    block_scan(line, line_number, 0, line_comment_of(line, line_number))

RECURSIVE extract_lines(_, _, _)
extract_lines(lines, line_index, acc) ==
    IF line_index >= Len(lines) THEN Ok(acc)
    ELSE LET r == extract_line(lines[line_index + 1], line_index + 1)
         IN  IF IsOk(r) THEN extract_lines(lines, line_index + 1, acc \o r[2])
             ELSE Panic

extract_comments(source_) == extract_lines(StrLines(source_), 0, <<>>)

(***************************************************************************)
(* comment_association.rs                                                  *)
(***************************************************************************)
\* a variant that looks at the two boundary lines of the node only
is_comment_strictly_inside_node_boundary_lines(comment, node_span) ==
    LET comment_line == comment.span.start_line
        comment_column == comment.span.start_column
    IN  \/ comment_line = node_span.start_line /\ comment_column > node_span.start_column
        \/ comment_line = node_span.end_line /\ comment_column < node_span.end_column

is_comment_strictly_inside_node(comment, node_span) ==
    LET comment_line == comment.span.start_line
        comment_column == comment.span.start_column
    IN  \* Case 1: strictly between start and end lines
        \/ comment_line > node_span.start_line /\ comment_line < node_span.end_line
        \* Case 2: on the start line, after the start column
        \/ comment_line = node_span.start_line /\ comment_column > node_span.start_column
        \* Case 3: on the end line, before the end column
        \/ comment_line = node_span.end_line /\ comment_column < node_span.end_column

\* the loop of lines 95-105: the start line of the first "_block" entry of
\* all_spans that starts at or after the declaration's start line
block_start_line_of(fn_span, all_spans) ==
    LET cand == {i \in DOMAIN all_spans :
                    /\ EndsWithBlock(all_spans[i][1])
                    /\ all_spans[i][2].start_line >= fn_span.start_line}
    IN  IF cand = {} THEN None
        ELSE Some(all_spans[CHOOSE i \in cand : \A j \in cand : i <= j][2].start_line)

is_comment_on_function_declaration_line_needs_block(comment, fn_span, all_spans) ==
    LET comment_line == comment.span.start_line
        comment_column == comment.span.start_column
        block_start_line == block_start_line_of(fn_span, all_spans)
    IN  /\ IsSome(block_start_line)
        /\ IF comment_line = fn_span.start_line
           THEN comment_column > fn_span.end_column
           ELSE /\ comment_line > fn_span.start_line
                /\ comment_line < Unwrap(block_start_line)

\* a variant that also takes the comment on the line directly above the
\* declaration
is_comment_on_function_declaration_line_or_above(comment, fn_span, all_spans) ==
    LET comment_line == comment.span.start_line
        comment_column == comment.span.start_column
        block_start_line == block_start_line_of(fn_span, all_spans)
    IN  IF comment_line = fn_span.start_line
        THEN comment_column > fn_span.end_column
        ELSE \/ comment_line + 1 = fn_span.start_line
             \/ /\ IsSome(block_start_line)
                /\ comment_line > fn_span.start_line
                /\ comment_line < Unwrap(block_start_line)

is_comment_on_function_declaration_line(comment, fn_span, all_spans) ==
    LET comment_line == comment.span.start_line
        comment_column == comment.span.start_column
        block_start_line == block_start_line_of(fn_span, all_spans)
    IN  IF comment_line = fn_span.start_line
        THEN \* Case 1: same line, must start after the identifier ends
             comment_column > fn_span.end_column
        ELSE \* Case 2: between the declaration and the opening brace
             /\ IsSome(block_start_line)
             /\ comment_line > fn_span.start_line
             /\ comment_line < Unwrap(block_start_line)

\* the positions of node_spans the two loops of find_best_node_for_comment
\* stop at
BlockMatches(comment, node_spans_) ==
    {i \in DOMAIN node_spans_ :
        /\ EndsWithBlock(node_spans_[i][1])
        /\ is_comment_strictly_inside_node(comment, node_spans_[i][2])}

DeclMatches(comment, node_spans_) ==
    {i \in DOMAIN node_spans_ :
        /\ ~EndsWithBlock(node_spans_[i][1])
        /\ is_comment_on_function_declaration_line(comment, node_spans_[i][2], node_spans_)}

MinOf(S) == CHOOSE i \in S : \A j \in S : i <= j

find_best_node_for_comment_decl_first(comment, node_spans_) ==
    LET blocks == BlockMatches(comment, node_spans_)
        decls == DeclMatches(comment, node_spans_)
    IN  IF decls # {} THEN Some(node_spans_[MinOf(decls)][1])
        ELSE IF blocks # {} THEN Some(node_spans_[MinOf(blocks)][1])
        ELSE None

find_best_node_for_comment(comment, node_spans_) ==
    LET blocks == BlockMatches(comment, node_spans_)
        decls == DeclMatches(comment, node_spans_)
    IN  IF blocks # {} THEN Some(node_spans_[MinOf(blocks)][1])
        ELSE IF decls # {} THEN Some(node_spans_[MinOf(decls)][1])
        ELSE None

\* associations.entry(node_id).or_default().push(comment)
EntryPush(assoc, node_id, comment) ==
    IF node_id \in DOMAIN assoc
    THEN [assoc EXCEPT ![node_id] = Append(@, comment)]
    ELSE [k \in (DOMAIN assoc) \cup {node_id} |->
            IF k = node_id THEN <<comment>> ELSE assoc[k]]

EmptyMap == [k \in {} |-> <<>>]

RECURSIVE PushAll(_, _, _)
PushAll(assoc, ids, comment) ==
    IF ids = {} THEN assoc
    ELSE LET id == CHOOSE x \in ids : TRUE
         IN  PushAll(EntryPush(assoc, id, comment), ids \ {id}, comment)

\* one iteration of the loop of associate_comments_with_nodes (lines 21-26)
associate_one_every_match(assoc, comment, node_spans_) ==
    PushAll(assoc,
            {node_spans_[i][1] : i \in BlockMatches(comment, node_spans_)
                                      \cup DeclMatches(comment, node_spans_)},
            comment)

\* a variant in which a node that holds a comment takes no further one
associate_one_skip_claimed(assoc, comment, node_spans_) ==
    LET free == SelectSeq(node_spans_, LAMBDA nd : nd[1] \notin DOMAIN assoc)
        best_node == find_best_node_for_comment(comment, free)
    IN  IF IsSome(best_node) THEN EntryPush(assoc, Unwrap(best_node), comment)
        ELSE assoc

\* a variant that makes an entry for every node before it looks for the
\* comment's node
associate_one_entry_per_node(assoc, comment, node_spans_) ==
    LET ids == {node_spans_[i][1] : i \in DOMAIN node_spans_}
        with_all == [k \in (DOMAIN assoc) \cup ids |->
                        IF k \in DOMAIN assoc THEN assoc[k] ELSE <<>>]
        best_node == find_best_node_for_comment(comment, node_spans_)
    IN  IF IsSome(best_node) THEN EntryPush(with_all, Unwrap(best_node), comment)
        ELSE with_all

associate_one(assoc, comment, node_spans_) ==
    LET best_node == find_best_node_for_comment(comment, node_spans_)
    IN  IF IsSome(best_node) THEN EntryPush(assoc, Unwrap(best_node), comment)
        ELSE assoc

RECURSIVE associate_from(_, _, _, _)
associate_from(assoc, comments_, node_spans_, i) ==
    IF i > Len(comments_) THEN assoc
    ELSE associate_from(associate_one(assoc, comments_[i], node_spans_),
                        comments_, node_spans_, i + 1)

associate_comments_with_nodes(comments_, node_spans_) ==
    associate_from(EmptyMap, comments_, node_spans_, 1)

(***************************************************************************)
(* span.rs.  The locations of a proc_macro2 span are <<"Located", start    *)
(* line, start column, end line, end column>>, or <<"Unavailable">> when   *)
(* reading them panics.                                                    *)
(***************************************************************************)
\* a variant that fills the offsets from the columns
from_span_column_offsets(span) ==
    IF span[1] = "Located"
    THEN [SpanInfo(span[2], span[3], span[4], span[5])
             EXCEPT !.start_offset = span[3], !.end_offset = span[5]]
    ELSE SpanInfo(1, 0, 1, 0)

from_span(span) ==
    IF span[1] = "Located"
    THEN SpanInfo(span[2], span[3], span[4], span[5])
    ELSE \* Fallback when span locations are not available
         SpanInfo(1, 0, 1, 0)

is_point(self) ==
    self.start_line = self.end_line /\ self.start_column = self.end_column

\* usize::saturating_sub
saturating_sub(a, b) == IF a >= b THEN a - b ELSE 0

\* a variant that subtracts without saturating
column_length_plain_sub(self) ==
    IF self.start_line = self.end_line
    THEN Some(self.end_column - self.start_column)
    ELSE None

column_length(self) ==
    IF self.start_line = self.end_line
    THEN Some(saturating_sub(self.end_column, self.start_column))
    ELSE None

(***************************************************************************)
(* lib.rs, mod file.  An item is a record: kind (the variant of Item),     *)
(* span (Option<SpanInfo>, None for a variant that has no span field),     *)
(* comments (the variant's comment list, empty and never written for a     *)
(* variant that has no such field) and, for Fn, block_span and             *)
(* block_comments (item_fn.block.span, item_fn.block.comments).            *)
(***************************************************************************)
ItemId(i) == <<"item", ToString(i)>>
BlockId(item_id) == Append(item_id, "block")

ItemKinds == {"Fn", "Enum", "Struct", "Trait", "Impl", "Use", "Const", "Static",
              "Type", "Union", "Mod", "ForeignMod", "TraitAlias", "Macro",
              "ExternCrate", "Verbatim"}

\* the arms of collect_item_spans that read a span
SpanKinds == {"Fn", "Enum", "Trait", "Impl", "Use", "Const", "Static", "Type"}

\* the arms of apply_comments_to_item that assign
CommentKinds == {"Fn", "Enum", "Trait", "Impl", "Use", "Const", "Static", "Type",
                 "Union", "ForeignMod"}

Item(kind, span, block_span) ==
    [kind |-> kind, span |-> span, comments |-> <<>>,
     block_span |-> block_span, block_comments |-> <<>>]

\* a variant that pushes the entry of the body before the entry of the
\* declaration
collect_item_spans_block_first(item, item_id) ==
    (IF item.kind = "Fn" /\ IsSome(item.block_span)
     THEN <<(<<BlockId(item_id), Unwrap(item.block_span)>>)>> ELSE <<>>)
    \o
    (IF item.kind \in SpanKinds /\ IsSome(item.span)
     THEN <<(<<item_id, Unwrap(item.span)>>)>> ELSE <<>>)

\* a variant that reads the block span of a fn only where the span of its
\* declaration is recorded
collect_item_spans_block_under_span(item, item_id) ==
    IF item.kind \in SpanKinds /\ IsSome(item.span)
    THEN <<(<<item_id, Unwrap(item.span)>>)>>
         \o (IF item.kind = "Fn" /\ IsSome(item.block_span)
             THEN <<(<<BlockId(item_id), Unwrap(item.block_span)>>)>> ELSE <<>>)
    ELSE <<>>

\* the entries collect_item_spans pushes for one item
collect_item_spans(item, item_id) ==
    (IF item.kind \in SpanKinds /\ IsSome(item.span)
     THEN <<(<<item_id, Unwrap(item.span)>>)>> ELSE <<>>)
    \o
    (IF item.kind = "Fn" /\ IsSome(item.block_span)
     THEN <<(<<BlockId(item_id), Unwrap(item.block_span)>>)>> ELSE <<>>)

RECURSIVE collect_from(_, _)
collect_from(items, i) ==
    IF i >= Len(items) THEN <<>>
    ELSE collect_item_spans(items[i + 1], ItemId(i)) \o collect_from(items, i + 1)

\* the node_spans vector of associate_comments_with_file_nodes
collect_node_spans(file_) == collect_from(file_.items, 0)

associate_comments_with_file_nodes(comments_, file_) ==
    associate_comments_with_nodes(comments_, collect_node_spans(file_))

\* a variant that assigns whatever the kind of the item
apply_comments_to_item_any_kind(item, comments_) ==
    [item EXCEPT !.comments = comments_]

\* a variant without the arm of Item::Use
apply_comments_to_item_no_use(item, comments_) ==
    IF item.kind \in CommentKinds \ {"Use"} THEN [item EXCEPT !.comments = comments_]
    ELSE item

\* a variant that rebuilds the item without its span
apply_comments_to_item_drops_span(item, comments_) ==
    IF item.kind \in CommentKinds
    THEN [item EXCEPT !.comments = comments_, !.span = None]
    ELSE item

apply_comments_to_item(item, comments_) ==
    IF item.kind \in CommentKinds THEN [item EXCEPT !.comments = comments_]
    ELSE item

\* a variant that looks the item up under a 1-based index
apply_to_indexed_item_one_based(item, i, assoc) ==
    LET item_id == ItemId(i + 1)
        block_id == BlockId(item_id)
        with_decl == IF item_id \in DOMAIN assoc
                     THEN apply_comments_to_item(item, assoc[item_id])
                     ELSE item
    IN  IF item.kind = "Fn" /\ block_id \in DOMAIN assoc
        THEN [with_decl EXCEPT !.block_comments = assoc[block_id]]
        ELSE with_decl

\* the body of the loop of apply_comment_associations for item i
apply_to_indexed_item(item, i, assoc) ==
    LET item_id == ItemId(i)
        block_id == BlockId(item_id)
        with_decl == IF item_id \in DOMAIN assoc
                     THEN apply_comments_to_item(item, assoc[item_id])
                     ELSE item
    IN  IF item.kind = "Fn" /\ block_id \in DOMAIN assoc
        THEN [with_decl EXCEPT !.block_comments = assoc[block_id]]
        ELSE with_decl

apply_comment_associations(file_, assoc) ==
    [file_ EXCEPT !.items =
        [k \in DOMAIN file_.items |-> apply_to_indexed_item(file_.items[k], k - 1, assoc)]]

\* lines 188-193 of from_syn_with_comments, on the converted file and the
\* extracted comments
from_syn_with_comments(file_, comments_) ==
    apply_comment_associations(file_, associate_comments_with_file_nodes(comments_, file_))

(***************************************************************************)
(* Inputs of the associator.                                               *)
(***************************************************************************)
\* a declaration's span is the span of one token (identifier or keyword)
DeclSpans == {SpanInfo(l, 0, l, ec) : l \in Lines, ec \in Cols}

\* a block's span runs from its open delimiter to its close delimiter
BlockSpans ==
    {SpanInfo(sl, sc, el, ec) : sl \in Lines, sc \in Cols, el \in Lines, ec \in Cols}
    \cap {s \in [start_offset : {0}, end_offset : {0}, start_line : Lines,
                 start_column : Cols, end_line : Lines, end_column : Cols] :
            \/ s.start_line < s.end_line
            \/ s.start_line = s.end_line /\ s.start_column <= s.end_column}

\* the k-th entry of a node-span sequence is keyed as a declaration or as a
\* block of the k-th item
NodeUniverse(k) ==
    {<<ItemId(k), s>> : s \in DeclSpans} \cup {<<BlockId(ItemId(k)), s>> : s \in BlockSpans}

RECURSIVE NodeSeqs(_)
NodeSeqs(n) ==
    IF n = 0 THEN {<<>>}
    ELSE LET shorter == NodeSeqs(n - 1)
         IN  shorter \cup
             {Append(s, nd) : s \in {t \in shorter : Len(t) = n - 1},
                              nd \in NodeUniverse(n - 1)}

CommentUniverse ==
    {Comment(<<"c">>, SpanInfo(l, c, l, c + 2), "Line") : l \in Lines, c \in CommentCols}

RECURSIVE CommentSeqs(_)
CommentSeqs(n) ==
    IF n = 0 THEN {<<>>}
    ELSE LET shorter == CommentSeqs(n - 1)
         IN  shorter \cup
             {Append(s, c) : s \in {t \in shorter : Len(t) = n - 1},
                             c \in CommentUniverse}

NoFile == <<>>

\* the variables of the SpanInfo methods, unused
NoSpans ==
    /\ raw_span = <<>>
    /\ span_info = <<>>
    /\ measure = <<>>

AssocComments == CommentSeqs(MaxComments)

AssocNodeSpans == NodeSeqs(MaxNodes)

InitAssoc ==
    /\ source = <<>>
    /\ extracted = <<>>
    /\ comments \in AssocComments
    /\ node_spans \in AssocNodeSpans
    /\ associations = EmptyMap
    /\ file = NoFile
    /\ NoSpans
    /\ pc = "associate"

Associate ==
    /\ pc = "associate"
    /\ associations' = associate_comments_with_nodes(comments, node_spans)
    /\ pc' = "done"
    /\ UNCHANGED <<source, extracted, comments, node_spans, file, span_vars>>

NextAssoc == Associate

SpecAssoc == InitAssoc /\ [][NextAssoc]_vars

(***************************************************************************)
(* The associator on several comments and a short node-span sequence.      *)
(***************************************************************************)
\* number of comments handed to the associator
MaxManyComments == 2
\* length of the node-span sequence
MaxManyNodes == 1

\* block comments of four characters, one after the other on a line
ManyCommentUniverse ==
    {Comment(<<>>, SpanInfo(l, 4 * c, l, 4 * c + 4), "Block") :
        l \in Lines, c \in 0..(MaxCol + 2)}

RECURSIVE ManyCommentSeqs(_)
ManyCommentSeqs(n) ==
    IF n = 0 THEN {<<>>}
    ELSE LET shorter == ManyCommentSeqs(n - 1)
         IN  shorter \cup
             {Append(s, c) : s \in {t \in shorter : Len(t) = n - 1},
                             c \in ManyCommentUniverse}

ManyComments == ManyCommentSeqs(MaxManyComments)

FewNodeSpans == NodeSeqs(MaxManyNodes)

InitAssocMany ==
    /\ source = <<>>
    /\ extracted = <<>>
    /\ comments \in ManyComments
    /\ node_spans \in FewNodeSpans
    /\ associations = EmptyMap
    /\ file = NoFile
    /\ NoSpans
    /\ pc = "associate"

SpecAssocMany == InitAssocMany /\ [][NextAssoc]_vars

(***************************************************************************)
(* Inputs of the extractor.                                                *)
(***************************************************************************)
\* length of a source string
MaxSrcLen == 5

Alphabet == {"/", "*", "\"", "'", "\\", " ", "\f", "a", "\n"}

Sources == UNION {[1..n -> Alphabet] : n \in 0..MaxSrcLen}

InitExtract ==
    /\ source \in Sources
    /\ extracted = <<"NotRun">>
    /\ comments = <<>>
    /\ node_spans = <<>>
    /\ associations = EmptyMap
    /\ file = NoFile
    /\ NoSpans
    /\ pc = "extract"

Extract ==
    /\ pc = "extract"
    /\ extracted' = extract_comments(source)
    /\ pc' = "extracted"
    /\ UNCHANGED <<source, comments, node_spans, associations, file, span_vars>>

NextExtract == Extract

SpecExtract == InitExtract /\ [][NextExtract]_vars

(***************************************************************************)
(* The extractor on the sources above and on longer lines of quotes and    *)
(* comment markers, such as "/*"/**/.                                      *)
(***************************************************************************)
\* length of a line of quotes and markers
MaxQuoteSrcLen == 8

QuoteAlphabet == {"/", "*", "\""}

QuoteSources == UNION {[1..n -> QuoteAlphabet] : n \in 0..MaxQuoteSrcLen}

InitQuotes ==
    /\ source \in Sources \cup QuoteSources
    /\ extracted = <<"NotRun">>
    /\ comments = <<>>
    /\ node_spans = <<>>
    /\ associations = EmptyMap
    /\ file = NoFile
    /\ NoSpans
    /\ pc = "extract"

SpecQuotes == InitQuotes /\ [][NextExtract]_vars

(***************************************************************************)
(* Inputs of File::from_syn_with_comments: the converted file and the      *)
(* comments extracted from its source.  One item starts per line at most:  *)
(* the token its span records is in columns 0..1, the open brace of a fn   *)
(* body is in column 2 of its line and the close brace ends either the     *)
(* line of the open brace (end column 4) or a later line (end column 1).   *)
(* The comments are line comments, each after the tokens of its line.      *)
(***************************************************************************)
\* lines of the source of a file: 1..MaxFileLine
MaxFileLine == 4
\* number of top-level items of a file
MaxItems == 2
\* number of comments extracted from the source of a file
MaxFileComments == 1

FileLines == 1..MaxFileLine

\* a comment alone on its line, one after a token or an open brace, one
\* after a one-line body
FileCommentCols == {0, 3, 5}

FileKinds == {"Fn", "Use", "Enum", "Struct", "Union"}

FnItem(l, bl, el) ==
    Item("Fn", Some(SpanInfo(l, 0, l, 1)),
         Some(SpanInfo(bl, 2, el, IF el = bl THEN 4 ELSE 1)))

\* the items that can start on line l, each with the last line it takes
PlacedItems(l) ==
    {<<Item(k, Some(SpanInfo(l, 0, l, 1)), None), l>> :
        k \in FileKinds \cap (SpanKinds \ {"Fn"})}
    \cup UNION {{<<FnItem(l, bl, el), el>> : el \in {x \in FileLines : x >= bl}} :
                    bl \in {x \in FileLines : x >= l}}

\* the items whose kind records no span
UnplacedItems == {Item(k, None, None) : k \in FileKinds \ SpanKinds}

RECURSIVE FileItemSeqs(_, _)
FileItemSeqs(n, from) ==
    IF n = 0 THEN {<<>>}
    ELSE {<<>>}
         \cup UNION {{<<p[1]>> \o rest : rest \in FileItemSeqs(n - 1, p[2] + 1)} :
                        p \in UNION {PlacedItems(l) : l \in {x \in FileLines : x >= from}}}
         \cup {<<it>> \o rest : it \in UnplacedItems, rest \in FileItemSeqs(n - 1, from)}

FileCommentUniverse ==
    {Comment(<<"c">>, SpanInfo(l, c, l, c + 3), "Line") : l \in FileLines, c \in FileCommentCols}

\* extract_comments returns the comments of an earlier line first
RECURSIVE FileCommentSeqs(_)
FileCommentSeqs(n) ==
    IF n = 0 THEN {<<>>}
    ELSE LET shorter == FileCommentSeqs(n - 1)
         IN  shorter \cup
             {Append(s, c) : s \in {t \in shorter : Len(t) = n - 1},
                             c \in FileCommentUniverse}

FileComments ==
    {cs \in FileCommentSeqs(MaxFileComments) :
        \A i \in 1..(Len(cs) - 1) : cs[i].span.start_line <= cs[i + 1].span.start_line}

Files == {[items |-> its] : its \in FileItemSeqs(MaxItems, 1)}

\* a line comment runs to the end of its line: it starts after every token
\* of the line
AfterTokens(file_, c) ==
    \A k \in DOMAIN file_.items :
        LET it == file_.items[k]
        IN  /\ (IsSome(it.span) /\ Unwrap(it.span).start_line = c.span.start_line) =>
                  c.span.start_column >= Unwrap(it.span).end_column
            /\ (IsSome(it.block_span)
                    /\ Unwrap(it.block_span).start_line = c.span.start_line) =>
                  c.span.start_column > Unwrap(it.block_span).start_column
            /\ (IsSome(it.block_span)
                    /\ Unwrap(it.block_span).end_line = c.span.start_line) =>
                  c.span.start_column >= Unwrap(it.block_span).end_column

InitFile ==
    /\ source = <<>>
    /\ extracted = <<>>
    /\ comments \in FileComments
    /\ node_spans = <<>>
    /\ associations = EmptyMap
    /\ file \in Files
    /\ \A i \in DOMAIN comments : AfterTokens(file, comments[i])
    /\ NoSpans
    /\ pc = "convert"

FromSynWithComments ==
    /\ pc = "convert"
    /\ node_spans' = collect_node_spans(file)
    /\ associations' = associate_comments_with_file_nodes(comments, file)
    /\ file' = from_syn_with_comments(file, comments)
    /\ pc' = "annotated"
    /\ UNCHANGED <<source, extracted, comments, span_vars>>

NextFile == FromSynWithComments

SpecFile == InitFile /\ [][NextFile]_vars

(***************************************************************************)
(* File::from_syn_with_comments on a source text and the tree the parser   *)
(* gives for it.  The source is one fn whose body holds comment lines:     *)
(*     fn f() {                                                            *)
(*     /* a */ /* a */ // c                                                *)
(*     }                                                                   *)
(* The converted tree records the span of the identifier f, (1,3)-(1,4),   *)
(* and the span of the body from its open brace to its close brace.        *)
(***************************************************************************)
\* block comments on one line of the body
MaxBodyBlocks == 2
\* lines of the body
MaxBodyLines == 3

FnHeader == <<"f", "n", " ", "f", "(", ")", " ", "{">>
BlockText == <<"/", "*", " ", "a", " ", "*", "/">>
LineText == <<"/", "/", " ", "c">>

\* n block comments, each followed by a space
RECURSIVE BlockRun(_)
BlockRun(n) == IF n = 0 THEN <<>> ELSE BlockText \o <<" ">> \o BlockRun(n - 1)

BodyLines ==
    {BlockRun(n) \o tail : n \in 0..MaxBodyBlocks, tail \in {<<>>, LineText}}

RECURSIVE Bodies(_)
Bodies(n) ==
    IF n = 0 THEN {<<>>}
    ELSE LET shorter == Bodies(n - 1)
         IN  shorter \cup
             {Append(b, l) : b \in {t \in shorter : Len(t) = n - 1}, l \in BodyLines}

RECURSIVE JoinLines(_)
JoinLines(ls) == IF ls = <<>> THEN <<>> ELSE Head(ls) \o <<"\n">> \o JoinLines(Tail(ls))

\* the source text of a fn with the given body lines
FnSource(body) == FnHeader \o <<"\n">> \o JoinLines(body) \o <<"}">>

\* the tree converted from the parse of that source
FnFile(body) ==
    [items |-> <<Item("Fn", Some(SpanInfo(1, 3, 1, 4)),
                      Some(SpanInfo(1, 7, Len(body) + 2, 1)))>>]

FnBodies == Bodies(MaxBodyLines)

InitSource ==
    /\ \E body \in FnBodies : source = FnSource(body) /\ file = FnFile(body)
    /\ extracted = <<"NotRun">>
    /\ comments = <<>>
    /\ node_spans = <<>>
    /\ associations = EmptyMap
    /\ NoSpans
    /\ pc = "parsed"

\* File::from_syn_with_comments(syn_file, source)
FromSynWithSource ==
    /\ pc = "parsed"
    /\ extracted' = extract_comments(source)
    /\ IF IsOk(extract_comments(source))
       THEN /\ comments' = extract_comments(source)[2]
            /\ node_spans' = collect_node_spans(file)
            /\ associations' =
                  associate_comments_with_file_nodes(extract_comments(source)[2], file)
            /\ file' = from_syn_with_comments(file, extract_comments(source)[2])
            /\ pc' = "annotated"
       ELSE /\ pc' = "panicked"
            /\ UNCHANGED <<comments, node_spans, associations, file>>
    /\ UNCHANGED <<source, span_vars>>

NextSource == FromSynWithSource

SpecSource == InitSource /\ [][NextSource]_vars

(***************************************************************************)
(* apply_comment_associations on a converted tree and any association map: *)
(* the map may hold identifiers of items that cannot carry comments, block *)
(* identifiers of items that are no fn, and identifiers of no item.        *)
(***************************************************************************)
\* number of top-level items of the tree
MaxApplyItems == 2

ApplyKinds == {"Fn", "Use", "Struct", "Mod"}

\* the item of kind k on line l of its source
ApplyItem(k, l) ==
    IF k = "Fn" THEN FnItem(l, l, l)
    ELSE Item(k, IF k \in SpanKinds THEN Some(SpanInfo(l, 0, l, 1)) ELSE None, None)

ApplyFiles ==
    UNION {{[items |-> [l \in 1..n |-> ApplyItem(ks[l], l)]] : ks \in [1..n -> ApplyKinds]} :
              n \in 0..MaxApplyItems}

\* the identifiers of the items 0..MaxApplyItems and of their blocks
ApplyIds ==
    {ItemId(i) : i \in 0..MaxApplyItems} \cup {BlockId(ItemId(i)) : i \in 0..MaxApplyItems}

\* the comment sequence a map holds under the identifier id
ApplyListOf(id) ==
    <<Comment(<<"c">>, SpanInfo(1, 4 * Len(id), 1, 4 * Len(id) + 4), "Line")>>

ApplyMaps == {[id \in S |-> ApplyListOf(id)] : S \in SUBSET ApplyIds}

InitApply ==
    /\ source = <<>>
    /\ extracted = <<>>
    /\ comments = <<>>
    /\ node_spans = <<>>
    /\ associations \in ApplyMaps
    /\ file \in ApplyFiles
    /\ NoSpans
    /\ pc = "apply"

Apply ==
    /\ pc = "apply"
    /\ file' = apply_comment_associations(file, associations)
    /\ pc' = "applied"
    /\ UNCHANGED <<source, extracted, comments, node_spans, associations, span_vars>>

NextApply == Apply

SpecApply == InitApply /\ [][NextApply]_vars

(***************************************************************************)
(* File::from_syn_with_comments on trees in which a span is not recorded:  *)
(* the span of an item and the span of a fn's block are Option values, and *)
(* collect_item_spans reads each of them under its own if let.  Item k of  *)
(* a tree is on line k of the source, a fn with a one-line body; each of   *)
(* its spans is recorded or absent.                                        *)
(***************************************************************************)
\* number of top-level items of the tree
MaxCollectItems == 3

CollectKinds == {"Fn", "Enum", "Struct"}

\* the item of kind k on line l with each of its spans recorded or not
CollectItems(k, l) ==
    {[ApplyItem(k, l) EXCEPT !.span = sp, !.block_span = bsp] :
        sp \in {ApplyItem(k, l).span, None},
        bsp \in {ApplyItem(k, l).block_span, None}}

RECURSIVE CollectItemSeqs(_)
CollectItemSeqs(n) ==
    IF n = 0 THEN {<<>>}
    ELSE LET shorter == CollectItemSeqs(n - 1)
         IN  shorter \cup
             UNION {{Append(its, it) : it \in UNION {CollectItems(k, n) : k \in CollectKinds}} :
                       its \in {t \in shorter : Len(t) = n - 1}}

CollectFiles == {[items |-> its] : its \in CollectItemSeqs(MaxCollectItems)}

InitCollect ==
    /\ source = <<>>
    /\ extracted = <<>>
    /\ comments \in FileComments
    /\ node_spans = <<>>
    /\ associations = EmptyMap
    /\ file \in CollectFiles
    /\ \A i \in DOMAIN comments : AfterTokens(file, comments[i])
    /\ NoSpans
    /\ pc = "convert"

SpecCollect == InitCollect /\ [][NextFile]_vars

(***************************************************************************)
(* Inputs of the SpanInfo methods: a SpanInfo converted from a span of the *)
(* parser, or one built field by field (the fields are public, and a       *)
(* SpanInfo is also read back from its serialized form).                   *)
(***************************************************************************)
\* lines of a span: 1..MaxSpanLine
MaxSpanLine == 3
\* columns of a span: 0..MaxSpanCol
MaxSpanCol == 3

SpanLines == 1..MaxSpanLine
SpanCols == 0..MaxSpanCol

\* the spans of the parser end at or after their start
RawSpans ==
    {<<"Unavailable">>}
    \cup {r \in {<<"Located", sl, sc, el, ec>> : sl \in SpanLines, sc \in SpanCols,
                                                el \in SpanLines, ec \in SpanCols} :
             \/ r[2] < r[4]
             \/ r[2] = r[4] /\ r[3] <= r[5]}

BuiltSpans ==
    {SpanInfo(sl, sc, el, ec) : sl \in SpanLines, sc \in SpanCols,
                                el \in SpanLines, ec \in SpanCols}

InitSpan ==
    /\ source = <<>>
    /\ extracted = <<>>
    /\ comments = <<>>
    /\ node_spans = <<>>
    /\ associations = EmptyMap
    /\ file = NoFile
    /\ measure = <<>>
    /\ \/ raw_span \in RawSpans /\ span_info = <<>> /\ pc = "span"
       \/ raw_span = <<>> /\ span_info \in BuiltSpans /\ pc = "built"

FromSpan ==
    /\ pc = "span"
    /\ span_info' = from_span(raw_span)
    /\ pc' = "converted"
    /\ UNCHANGED <<source, extracted, comments, node_spans, associations, file,
                   raw_span, measure>>

\* the two methods that measure a SpanInfo
Measure ==
    /\ pc \in {"converted", "built"}
    /\ measure' = [is_point |-> is_point(span_info),
                   column_length |-> column_length(span_info)]
    /\ pc' = "measured"
    /\ UNCHANGED <<source, extracted, comments, node_spans, associations, file,
                   raw_span, span_info>>

NextSpan == FromSpan \/ Measure

SpecSpan == InitSpan /\ [][NextSpan]_vars

(***************************************************************************)
(* Properties of associate_comments_with_nodes, checked under SpecAssoc.   *)
(***************************************************************************)
\* the places of a map that hold comment c
PlacesOf(assoc, c) ==
    UNION {{<<id, i>> : i \in {j \in DOMAIN assoc[id] : assoc[id][j] = c}} :
              id \in DOMAIN assoc}

IdsOf(assoc, c) == {id \in DOMAIN assoc : c \in Range(assoc[id])}

TimesIn(seq, c) == Cardinality({i \in DOMAIN seq : seq[i] = c})

IsBlockNode(nd) == EndsWithBlock(nd[1])

\* C1: no double-claim.  Once the associator has run, every input comment
\* lies under at most one node identifier of the map, and the map holds it
\* at most as many times as the input does (once for a comment given once).
C1_NoDoubleClaim ==
    pc = "done" =>
        \A c \in Range(comments) :
            /\ Cardinality(IdsOf(associations, c)) <= 1
            /\ Cardinality(PlacesOf(associations, c)) <= TimesIn(comments, c)

\* C1 witness: a comment that two nodes match has been placed
C1_Witness ==
    /\ pc = "done"
    /\ \E c \in Range(comments) :
          /\ Cardinality(BlockMatches(c, node_spans) \cup DeclMatches(c, node_spans)) >= 2
          /\ Cardinality(IdsOf(associations, c)) = 1

\* the containment the claim C3 states for a comment under a block node
ContainedIn(c, n) ==
    /\ c.span.start_line >= n.start_line
    /\ c.span.start_line <= n.end_line
    /\ (c.span.start_line = n.start_line => c.span.start_column > n.start_column)
    /\ (c.span.start_line = n.end_line => c.span.start_column < n.end_column)

\* C3: containment invariant.  Every comment the associator places under a
\* block node starts within the block's lines, after the start column when
\* on the start line and before the end column when on the end line.
C3_Containment ==
    pc \in {"done", "annotated"} =>
        \A i \in DOMAIN node_spans :
            (IsBlockNode(node_spans[i]) /\ node_spans[i][1] \in DOMAIN associations) =>
                \A c \in Range(associations[node_spans[i][1]]) :
                    ContainedIn(c, node_spans[i][2])

\* C7: block priority.  A comment that some block node contains and that
\* some declaration node matches is placed under a block node containing
\* it and under no declaration node, wherever the nodes are in the sequence.
C7_BlockPriority ==
    pc = "done" =>
        \A c \in Range(comments) :
            (BlockMatches(c, node_spans) # {} /\ DeclMatches(c, node_spans) # {}) =>
                /\ \E i \in BlockMatches(c, node_spans) :
                      node_spans[i][1] \in IdsOf(associations, c)
                /\ \A i \in DOMAIN node_spans :
                      ~IsBlockNode(node_spans[i]) =>
                          node_spans[i][1] \notin IdsOf(associations, c)

\* C7 witness: such a comment has been placed, with the declaration node
\* ahead of the block node in the sequence
C7_Witness ==
    /\ pc = "done"
    /\ \E c \in Range(comments) :
          \E i \in BlockMatches(c, node_spans), j \in DeclMatches(c, node_spans) :
              j < i /\ node_spans[i][1] \in IdsOf(associations, c)

\* the same-line case of claim C8: the comment is on the declaration's
\* line and starts after the declaration's end column
OnLineAfter(c, d) ==
    /\ c.span.start_line = d.start_line
    /\ c.span.start_column > d.end_column

\* C8: declaration same-line rule.  A comment that no block node contains
\* and that is on the line of a declaration node d, after d's end column,
\* is placed under a declaration node, and under d itself when no earlier
\* declaration of the sequence matches the comment.
C8_SameLine ==
    pc = "done" =>
        \A c \in Range(comments) : \A d \in DOMAIN node_spans :
            (/\ ~IsBlockNode(node_spans[d])
             /\ BlockMatches(c, node_spans) = {}
             /\ OnLineAfter(c, node_spans[d][2])) =>
                /\ \E j \in DOMAIN node_spans :
                      ~IsBlockNode(node_spans[j]) /\ node_spans[j][1] \in IdsOf(associations, c)
                /\ ((\A j \in 1..(d - 1) : j \notin DeclMatches(c, node_spans)) =>
                        node_spans[d][1] \in IdsOf(associations, c))

\* C8 witness: a comment after the second of two declarations of one line
\* sequence has been placed under that second declaration
C8_Witness ==
    /\ pc = "done"
    /\ \E c \in Range(comments) : \E d \in DOMAIN node_spans :
          /\ d > 1
          /\ ~IsBlockNode(node_spans[d]) /\ ~IsBlockNode(node_spans[1])
          /\ OnLineAfter(c, node_spans[d][2])
          /\ node_spans[d][1] \in IdsOf(associations, c)

(***************************************************************************)
(* Properties of File::from_syn_with_comments, checked under SpecFile.     *)
(***************************************************************************)
\* how many times the constructs of a file hold comment c
HeldTimes(file_, c) ==
    Cardinality({<<k, i>> \in (DOMAIN file_.items) \X (1..MaxFileComments) :
                    i \in DOMAIN file_.items[k].comments
                    /\ file_.items[k].comments[i] = c})
    + Cardinality({<<k, i>> \in (DOMAIN file_.items) \X (1..MaxFileComments) :
                    i \in DOMAIN file_.items[k].block_comments
                    /\ file_.items[k].block_comments[i] = c})

\* C2: no silent loss.  After from_syn_with_comments the annotated tree
\* holds every extracted comment exactly as often as it was extracted: the
\* tree (which has no list but those of its constructs) loses none.
C2_NoSilentLoss ==
    pc = "annotated" =>
        \A c \in Range(comments) : HeldTimes(file, c) = TimesIn(comments, c)

\* C9: between signature and brace.  A comment that no block node contains
\* and that is on a line strictly between the line of the declaration of
\* fn item N and the start line of that fn's own block is placed under
\* item_N.
C9_BetweenSignatureAndBrace ==
    pc = "annotated" =>
        \A c \in Range(comments) : \A k \in DOMAIN file.items :
            LET it == file.items[k]
            IN  (/\ it.kind = "Fn" /\ IsSome(it.span) /\ IsSome(it.block_span)
                 /\ BlockMatches(c, node_spans) = {}
                 /\ c.span.start_line > Unwrap(it.span).start_line
                 /\ c.span.start_line < Unwrap(it.block_span).start_line) =>
                    ItemId(k - 1) \in IdsOf(associations, c)

\* C10: leading comments.  A line comment alone on the line directly above
\* a top-level use, fn or enum declaration is in the comment list of that
\* declaration after from_syn_with_comments.
C10_LeadingComment ==
    pc = "annotated" =>
        \A c \in Range(comments) : \A k \in DOMAIN file.items :
            LET it == file.items[k]
            IN  (/\ it.kind \in {"Use", "Fn", "Enum"} /\ IsSome(it.span)
                 /\ c.kind = "Line" /\ c.span.start_column = 0
                 /\ c.span.start_line + 1 = Unwrap(it.span).start_line) =>
                    c \in Range(it.comments)

(***************************************************************************)
(* Properties of extract_comments, checked under SpecExtract.              *)
(***************************************************************************)
StartsBefore(a, b) ==
    \/ a.span.start_line < b.span.start_line
    \/ a.span.start_line = b.span.start_line /\ a.span.start_column <= b.span.start_column

\* C4: source order.  The comments extract_comments returns are in ascending
\* order of (start_line, start_column).
C4_SourceOrder ==
    (pc = "extracted" /\ IsOk(extracted)) =>
        \A i \in DOMAIN extracted[2] : \A j \in DOMAIN extracted[2] :
            i < j => StartsBefore(extracted[2][i], extracted[2][j])

\* The quoted regions of a line, read off the text: a region opens at the
\* first quote character at or after p and closes at the next quote of the
\* same kind that an even number of backslashes directly precedes; the
\* scan goes on after the close.  A region is <<open, close>>, close being
\* Len(line) for a region that is not closed.
BackslashesBefore(line, o, c) ==
    Cardinality({k \in (o + 1)..(c - 1) :
                    \A m \in k..(c - 1) : line[m + 1] = "\\"})

ClosesAt(line, o, c) ==
    /\ line[c + 1] = line[o + 1]
    /\ BackslashesBefore(line, o, c) % 2 = 0

RECURSIVE QuotedRegions(_, _)
QuotedRegions(line, p) ==
    LET opens == {o \in p..(Len(line) - 1) : line[o + 1] \in {"\"", "'"}}
    IN  IF opens = {} THEN {}
        ELSE LET o == MinOf(opens)
                 closes == {c \in (o + 1)..(Len(line) - 1) : ClosesAt(line, o, c)}
             IN  IF closes = {} THEN {<<o, Len(line)>>}
                 ELSE {<<o, MinOf(closes)>>} \cup QuotedRegions(line, MinOf(closes) + 1)

\* position i lies between the quotes of a region that is closed
InClosedQuote(line, i) ==
    \E r \in QuotedRegions(line, 0) : r[2] < Len(line) /\ r[1] < i /\ i < r[2]

\* position i lies in a quoted region, closed or not
InQuote(line, i) ==
    \E r \in QuotedRegions(line, 0) : r[1] < i /\ i < r[2]

MarkersAt(line, c1, c2) ==
    {i \in 0..(Len(line) - 2) : line[i + 1] = c1 /\ line[i + 2] = c2}

\* the precondition of claim C6 on one line
OnlyQuotedMarkers(line) ==
    /\ \A i \in MarkersAt(line, "/", "/") : InClosedQuote(line, i)
    /\ \A i \in MarkersAt(line, "/", "*") : InQuote(line, i)

\* C6: quote-awareness.  For a line whose every "//" lies inside a closed
\* quoted string and that has no "/*" outside quotes, extracting the line
\* yields nothing, and the extracted sequence has no comment of that line.
C6_QuoteAwareness ==
    pc = "extracted" =>
        \A k \in DOMAIN StrLines(source) :
            OnlyQuotedMarkers(StrLines(source)[k]) =>
                /\ extract_line(StrLines(source)[k], k) = Ok(<<>>)
                /\ IsOk(extracted) =>
                      \A i \in DOMAIN extracted[2] : extracted[2][i].span.start_line # k

\* C6 witness: a line with a "//" inside a closed quoted string was
\* extracted
C6_Witness ==
    /\ pc = "extracted"
    /\ \E k \in DOMAIN StrLines(source) :
          /\ OnlyQuotedMarkers(StrLines(source)[k])
          /\ MarkersAt(StrLines(source)[k], "/", "/") # {}
          /\ IsOk(extracted)

(***************************************************************************)
(* Further properties of associate_comments_with_nodes (SpecAssoc) and of  *)
(* File::from_syn_with_comments (SpecFile).                                *)
(***************************************************************************)
\* a span whose end is not before its start
WellFormed(sp) ==
    \/ sp.start_line < sp.end_line
    \/ sp.start_line = sp.end_line /\ sp.start_column <= sp.end_column

\* comment c is on a line above the start line of every node span
AboveEveryNode(c, node_spans_) ==
    \A i \in DOMAIN node_spans_ : c.span.start_line < node_spans_[i][2].start_line

\* C11: a comment whose line is strictly above the start line of every
\* (well-formed) node span is under no identifier of the map the associator
\* returns; a comment on the line before the first declaration is not given
\* to that declaration.
C11_CommentBeforeNodes ==
    pc = "done" =>
        \A c \in Range(comments) :
            (/\ \A i \in DOMAIN node_spans : WellFormed(node_spans[i][2])
             /\ AboveEveryNode(c, node_spans)) =>
                IdsOf(associations, c) = {}

\* C11 witness: the associator has run on a comment of the line directly
\* above a declaration, every node being below the comment
C11_Witness ==
    /\ pc = "done"
    /\ \E c \in Range(comments) :
          /\ AboveEveryNode(c, node_spans)
          /\ \E i \in DOMAIN node_spans :
                /\ ~IsBlockNode(node_spans[i])
                /\ node_spans[i][2].start_line = c.span.start_line + 1
          /\ IdsOf(associations, c) = {}

\* the block of item k shares no line with the block of another item
BlockLinesApart(file_, k) ==
    \A j \in (DOMAIN file_.items) \ {k} :
        IsSome(file_.items[j].block_span) =>
            \/ Unwrap(file_.items[j].block_span).end_line
                   < Unwrap(file_.items[k].block_span).start_line
            \/ Unwrap(file_.items[j].block_span).start_line
                   > Unwrap(file_.items[k].block_span).end_line

\* comment c is on a line strictly between the lines of the delimiters of
\* the body of item k
OnBodyLine(file_, k, c) ==
    /\ file_.items[k].kind = "Fn" /\ IsSome(file_.items[k].block_span)
    /\ c.span.start_line > Unwrap(file_.items[k].block_span).start_line
    /\ c.span.start_line < Unwrap(file_.items[k].block_span).end_line

\* C12: body comments reach the body.  For a fn item at index N (position
\* k = N + 1) whose body spans several lines and shares no line with
\* another item's block, a comment on a line strictly between the
\* delimiter lines is placed under item_N_block, is in the block comment
\* list of that fn after from_syn_with_comments and is in no declaration's
\* comment list.
C12_BodyComment ==
    pc = "annotated" =>
        \A c \in Range(comments) : \A k \in DOMAIN file.items :
            (OnBodyLine(file, k, c) /\ BlockLinesApart(file, k)) =>
                /\ IdsOf(associations, c) = {BlockId(ItemId(k - 1))}
                /\ c \in Range(file.items[k].block_comments)
                /\ \A j \in DOMAIN file.items : c \notin Range(file.items[j].comments)

\* C12 witness: the second item of a file is a fn whose body holds a
\* comment line, and the file has been annotated
C12_Witness ==
    /\ pc = "annotated"
    /\ \E c \in Range(comments) :
          /\ Len(file.items) >= 2
          /\ OnBodyLine(file, 2, c)
          /\ c \in Range(file.items[2].block_comments)

(***************************************************************************)
(* Block comments of a line, read off the text, and further properties of  *)
(* extract_comments (SpecExtract).                                         *)
(***************************************************************************)
\* the block-open markers at or after p that lie outside the quoted regions
OpenersFrom(line, p) ==
    {o \in MarkersAt(line, "/", "*") : o >= p /\ ~InQuote(line, o)}

\* the block-close markers that follow the open marker at o
ClosersAfter(line, o) == {c \in MarkersAt(line, "*", "/") : c >= o + 2}

\* The `/* ... */` pairs of a line from position p on, as <<open, close>>:
\* the first open marker outside quotes with the first close marker after
\* it, then the pairs after that close marker; an open marker that is not
\* closed takes the rest of the line.
RECURSIVE BlockPairs(_, _)
BlockPairs(line, p) ==
    IF OpenersFrom(line, p) = {} THEN <<>>
    ELSE LET o == MinOf(OpenersFrom(line, p))
         IN  IF ClosersAfter(line, o) = {} THEN <<>>
             ELSE <<(<<o, MinOf(ClosersAfter(line, o))>>)>>
                  \o BlockPairs(line, MinOf(ClosersAfter(line, o)) + 2)

\* the Block comment the claims expect for the pair pr of line k
BlockCommentOf(line, k, pr) ==
    Comment(Trim(Slice(line, pr[1] + 2, pr[2])), SpanInfo(k, pr[1], k, pr[2] + 2), "Block")

IsBlockOfLine(c, k) == c.kind = "Block" /\ c.span.start_line = k

\* the Block comments of line k in a sequence of comments, in its order
RECURSIVE BlocksOfLine(_, _)
BlocksOfLine(cs, k) ==
    IF cs = <<>> THEN <<>>
    ELSE (IF IsBlockOfLine(Head(cs), k) THEN <<Head(cs)>> ELSE <<>>)
         \o BlocksOfLine(Tail(cs), k)

\* C13: several block comments on one line.  For a line that holds k >= 1
\* consecutive `/* ... */` pairs outside quoted regions, extract_comments
\* returns exactly k Block comments of that line, the i-th with its start
\* column at the i-th open marker, its end column just past the i-th close
\* marker and the trimmed interior as its text.
C13_BlockPairs ==
    pc = "extracted" =>
        \A k \in DOMAIN StrLines(source) :
            LET line == StrLines(source)[k]
                pairs == BlockPairs(line, 0)
            IN  Len(pairs) >= 1 =>
                    /\ IsOk(extracted)
                    /\ BlocksOfLine(extracted[2], k)
                           = [i \in 1..Len(pairs) |-> BlockCommentOf(line, k, pairs[i])]

\* C14: an unclosed block comment is skipped.  For an open marker outside
\* quotes that no close marker follows on its line, extract_comments
\* returns (no error), returns no Block comment starting at that marker,
\* and returns the Block comments of the pairs completed before it.
C14_UnclosedSkipped ==
    pc = "extracted" =>
        \A k \in DOMAIN StrLines(source) :
            LET line == StrLines(source)[k]
                pairs == BlockPairs(line, 0)
            IN  \A o \in OpenersFrom(line, 0) :
                    ClosersAfter(line, o) = {} =>
                        /\ IsOk(extracted)
                        /\ \A i \in DOMAIN extracted[2] :
                              ~(/\ IsBlockOfLine(extracted[2][i], k)
                                /\ extracted[2][i].span.start_column = o)
                        /\ \A j \in DOMAIN pairs :
                              pairs[j][2] < o =>
                                  BlockCommentOf(line, k, pairs[j]) \in Range(extracted[2])

\* C15: graceful degradation.  extract_comments returns a comment sequence
\* for every source string.
C15_AlwaysReturns ==
    pc = "extracted" => IsOk(extracted)

\* the two characters that open a comment of the given kind
OpenMarker(kind) == IF kind = "Line" THEN <<"/", "/">> ELSE <<"/", "*">>

\* C20: every comment extract_comments returns has a well-formed one-line
\* span: its start line and end line are the 1-based index of its physical
\* line, its start column is the 0-based position of its opening marker in
\* that line, and its end column is at least two columns past the start.
C20_SingleLineSpans ==
    (pc = "extracted" /\ IsOk(extracted)) =>
        \A i \in DOMAIN extracted[2] :
            LET c == extracted[2][i]
            IN  /\ c.span.start_line = c.span.end_line
                /\ c.span.start_line >= 1
                /\ c.span.start_line \in DOMAIN StrLines(source)
                /\ c.span.start_column >= 0
                /\ c.span.start_column + 2 <= Len(StrLines(source)[c.span.start_line])
                /\ Slice(StrLines(source)[c.span.start_line],
                         c.span.start_column, c.span.start_column + 2) = OpenMarker(c.kind)
                /\ c.span.end_column >= c.span.start_column + 2
                /\ c.span.end_column <= Len(StrLines(source)[c.span.start_line])

\* C20 witness: a line comment that does not start its line was returned
\* for the second line of a source
C20_Witness ==
    /\ pc = "extracted" /\ IsOk(extracted)
    /\ \E i \in DOMAIN extracted[2] :
          /\ extracted[2][i].kind = "Line"
          /\ extracted[2][i].span.start_line = 2
          /\ extracted[2][i].span.start_column > 0

(***************************************************************************)
(* Properties of the annotated tree (SpecFile).                            *)
(***************************************************************************)
\* C16: round-trip stability.  The node spans derived from the annotated
\* tree are those derived before the comments were applied (same spans,
\* same order, same identifiers), and associating the same comments with
\* the annotated tree gives the association map of the first run.
C16_RoundTrip ==
    pc = "annotated" =>
        /\ collect_node_spans(file) = node_spans
        /\ associate_comments_with_file_nodes(comments, file) = associations

\* C16 witness: a tree of two items in which the body of a fn was given a
\* comment
C16_Witness ==
    /\ pc = "annotated"
    /\ Len(file.items) = 2
    /\ \E k \in DOMAIN file.items : file.items[k].block_comments # <<>>

\* the list of a construct is as it was before (empty) or the non-empty
\* sequence the map holds under the construct's identifier
AbsentOrFromEntry(list, assoc, id) ==
    \/ list = <<>>
    \/ id \in DOMAIN assoc /\ list = assoc[id] /\ list # <<>>

\* C17: comment lists are absent or non-empty.  The association map holds
\* no identifier with an empty comment sequence, and after
\* from_syn_with_comments the comment list of every construct is empty as
\* before or the non-empty sequence of its map entry.
C17_AbsentOrNonEmpty ==
    pc = "annotated" =>
        /\ \A id \in DOMAIN associations : associations[id] # <<>>
        /\ \A k \in DOMAIN file.items :
              /\ AbsentOrFromEntry(file.items[k].comments, associations, ItemId(k - 1))
              /\ AbsentOrFromEntry(file.items[k].block_comments, associations,
                                   BlockId(ItemId(k - 1)))

\* C17 witness: a tree with a construct that was given a comment and a
\* construct with a recorded span that was given none
C17_Witness ==
    /\ pc = "annotated"
    /\ \E k \in DOMAIN file.items : file.items[k].comments # <<>>
    /\ \E k \in DOMAIN file.items :
          /\ IsSome(file.items[k].span)
          /\ file.items[k].kind \in SpanKinds
          /\ file.items[k].comments = <<>>

(***************************************************************************)
(* Properties of the SpanInfo methods (SpecSpan).                          *)
(***************************************************************************)
\* C18: column_length is Some(end_column - start_column), 0 when the end
\* column is below the start column, exactly for a span of one line, and
\* None for a span that crosses lines; is_point holds exactly when start
\* and end agree in line and column; a point span has column_length
\* Some(0).
C18_SpanMethods ==
    pc = "measured" =>
        /\ (span_info.start_line = span_info.end_line) =>
              /\ measure.column_length[1] = "Some"
              /\ (span_info.end_column >= span_info.start_column =>
                     measure.column_length[2] = span_info.end_column - span_info.start_column)
              /\ (span_info.end_column < span_info.start_column =>
                     measure.column_length[2] = 0)
        /\ (span_info.start_line # span_info.end_line) => measure.column_length = <<"None">>
        /\ measure.is_point <=> (/\ span_info.start_line = span_info.end_line
                                  /\ span_info.start_column = span_info.end_column)
        /\ measure.is_point => measure.column_length = <<"Some", 0>>

\* C18 witness: a one-line span whose end column is below its start column
\* was measured
C18_Witness ==
    /\ pc = "measured"
    /\ span_info.start_line = span_info.end_line
    /\ span_info.end_column < span_info.start_column
    /\ measure.column_length = <<"Some", 0>>

(***************************************************************************)
(* The core as a whole: the producers of SpanInfo values (extract_comments *)
(* and SpanInfo::from_span) and the association and application that carry *)
(* them; each behaviour is one run of one of them.                         *)
(***************************************************************************)
InitCore == InitExtract \/ InitFile \/ InitSpan

NextCore == Extract \/ FromSynWithComments \/ FromSpan \/ Measure

SpecCore == InitCore /\ [][NextCore]_vars

ZeroOffsets(sp) == sp.start_offset = 0 /\ sp.end_offset = 0

\* the comments the annotated tree and the association map hold
CarriedComments ==
    UNION {Range(associations[id]) : id \in DOMAIN associations}
    \cup UNION {Range(file.items[k].comments) \cup Range(file.items[k].block_comments) :
                   k \in DOMAIN file.items}

\* C19: byte offsets stay zero.  Every comment span extract_comments
\* returns and every SpanInfo from_span returns (from the locations of the
\* span or from the fallback) has start_offset = 0 and end_offset = 0; the
\* comments the association map and the annotated tree hold are the given
\* comments, spans unchanged, and the node spans are those of the tree.
C19_ZeroOffsets ==
    /\ (pc = "extracted" /\ IsOk(extracted)) =>
          \A i \in DOMAIN extracted[2] : ZeroOffsets(extracted[2][i].span)
    /\ (pc \in {"converted", "measured"} /\ raw_span # <<>>) =>
          /\ ZeroOffsets(span_info)
          /\ raw_span[1] = "Located" =>
                <<span_info.start_line, span_info.start_column,
                  span_info.end_line, span_info.end_column>>
                    = <<raw_span[2], raw_span[3], raw_span[4], raw_span[5]>>
    /\ pc = "annotated" =>
          /\ CarriedComments \subseteq Range(comments)
          /\ \A c \in CarriedComments : ZeroOffsets(c.span)
          /\ \A i \in DOMAIN node_spans : ZeroOffsets(node_spans[i][2])
          /\ collect_node_spans(file) = node_spans

\* C19 witness: from_span took its fallback
C19_Witness ==
    /\ pc = "converted"
    /\ raw_span = <<"Unavailable">>
    /\ span_info.start_line = 1 /\ span_info.end_column = 0

(***************************************************************************)
(* Independence of the comments (SpecAssocMany).                           *)
(***************************************************************************)
\* C21: comments are matched independently.  The identifiers that hold a
\* comment after the associator ran on the whole sequence are those that
\* hold it after a run on that comment alone: the other comments of the
\* sequence, and their order, do not change the node a comment goes to.
C21_Independent ==
    pc = "done" =>
        \A i \in DOMAIN comments :
            IdsOf(associations, comments[i])
                = DOMAIN associate_comments_with_nodes(<<comments[i]>>, node_spans)

\* C21 witness: two different comments were placed under one node
C21_Witness ==
    /\ pc = "done"
    /\ Len(comments) = 2
    /\ comments[1] # comments[2]
    /\ \E id \in DOMAIN associations :
          comments[1] \in Range(associations[id]) /\ comments[2] \in Range(associations[id])

(***************************************************************************)
(* Further properties of File::from_syn_with_comments (SpecFile).          *)
(***************************************************************************)
\* comment c is on a line strictly between the line of the declaration of
\* item k and the start line of the block of item k itself
BeforeOwnBlock(file_, k, c) ==
    /\ file_.items[k].kind = "Fn"
    /\ IsSome(file_.items[k].block_span)
    /\ c.span.start_line > Unwrap(file_.items[k].span).start_line
    /\ c.span.start_line < Unwrap(file_.items[k].block_span).start_line

\* C22: a declaration claims only its own trailing comments.  A comment
\* placed under the declaration identifier item_N is on the declaration's
\* line after its end column, or on a line strictly between the
\* declaration's line and the start line of the block keyed item_N_block;
\* a declaration without a block of its own holds comments of its own line
\* only.
C22_OwnTrailingComments ==
    pc = "annotated" =>
        \A k \in DOMAIN file.items : \A c \in Range(comments) :
            ItemId(k - 1) \in IdsOf(associations, c) =>
                /\ IsSome(file.items[k].span)
                /\ \/ OnLineAfter(c, Unwrap(file.items[k].span))
                   \/ BeforeOwnBlock(file, k, c)

(***************************************************************************)
(* The comments of a source in the association map (SpecSource).           *)
(***************************************************************************)
\* C23: source order inside the map.  In the association map built from
\* the comments extract_comments returns for a source, the comment
\* sequence of every node is in ascending order of (start_line,
\* start_column), also when a node holds a line comment and block comments
\* of one line.
C23_MapSourceOrder ==
    pc = "annotated" =>
        \A id \in DOMAIN associations :
            \A i \in DOMAIN associations[id] : \A j \in DOMAIN associations[id] :
                i < j => StartsBefore(associations[id][i], associations[id][j])

(***************************************************************************)
(* Collection and application in File::from_syn_with_comments (SpecFile,   *)
(* and SpecCollect for the collector).                                     *)
(***************************************************************************)
\* entry nd of the collected sequence is the declaration entry of item k
IsDeclEntryOf(nd, file_, k) ==
    /\ IsSome(file_.items[k].span)
    /\ nd = <<ItemId(k - 1), Unwrap(file_.items[k].span)>>

\* entry nd of the collected sequence is the body entry of fn item k
IsBlockEntryOf(nd, file_, k) ==
    /\ file_.items[k].kind = "Fn"
    /\ IsSome(file_.items[k].block_span)
    /\ nd = <<BlockId(ItemId(k - 1)), Unwrap(file_.items[k].block_span)>>

\* C24: the key scheme is shared and unique.  Every collected entry is
\* keyed item_i for the declaration of the i-th item (every item counted,
\* with or without a span) or item_i_block for the body of the fn at index
\* i; the collected identifiers are pairwise distinct; and the list of a
\* construct after from_syn_with_comments holds the comments of the map
\* entry under that construct's own identifier and no others.
C24_KeyScheme ==
    pc = "annotated" =>
        /\ \A i \in DOMAIN node_spans :
              \E k \in DOMAIN file.items :
                  IsDeclEntryOf(node_spans[i], file, k) \/ IsBlockEntryOf(node_spans[i], file, k)
        /\ \A i \in DOMAIN node_spans : \A j \in DOMAIN node_spans :
              i # j => node_spans[i][1] # node_spans[j][1]
        /\ \A k \in DOMAIN file.items :
              /\ file.items[k].comments =
                    IF ItemId(k - 1) \in DOMAIN associations
                    THEN associations[ItemId(k - 1)] ELSE <<>>
              /\ file.items[k].block_comments =
                    IF BlockId(ItemId(k - 1)) \in DOMAIN associations
                    THEN associations[BlockId(ItemId(k - 1))] ELSE <<>>

\* C24 witness: the second item of a file follows an item without a span
\* and was given a comment
C24_Witness ==
    /\ pc = "annotated"
    /\ Len(file.items) = 2
    /\ ~IsSome(file.items[1].span)
    /\ file.items[2].comments # <<>>
    /\ ItemId(1) \in DOMAIN associations

\* the kinds of item for which no position is recorded
NoPositionKinds ==
    {"Struct", "Union", "Mod", "ForeignMod", "TraitAlias", "Macro", "ExternCrate",
     "Verbatim"}

\* the position in the collected sequence of the entry with identifier id
PositionOf(node_spans_, id) == CHOOSE i \in DOMAIN node_spans_ : node_spans_[i][1] = id

\* C25: collector coverage.  The collected sequence has a declaration
\* entry exactly for the items whose span is recorded, a body entry for
\* every fn whose block span is recorded (with or without a declaration
\* span), no entry for an item of a kind without position metadata, and
\* its entries are in document order, a fn's declaration entry before its
\* body entry.
C25_CollectorCoverage ==
    pc = "annotated" =>
        LET ids == {node_spans[i][1] : i \in DOMAIN node_spans}
        IN  /\ \A i \in DOMAIN node_spans :
                  \E k \in DOMAIN file.items :
                      IsDeclEntryOf(node_spans[i], file, k)
                          \/ IsBlockEntryOf(node_spans[i], file, k)
            /\ Cardinality(ids) = Len(node_spans)
            /\ \A k \in DOMAIN file.items :
                  /\ ItemId(k - 1) \in ids <=> IsSome(file.items[k].span)
                  /\ BlockId(ItemId(k - 1)) \in ids <=>
                        (file.items[k].kind = "Fn" /\ IsSome(file.items[k].block_span))
                  /\ file.items[k].kind \in NoPositionKinds =>
                        (ItemId(k - 1) \notin ids /\ BlockId(ItemId(k - 1)) \notin ids)
                  /\ (ItemId(k - 1) \in ids /\ BlockId(ItemId(k - 1)) \in ids) =>
                        PositionOf(node_spans, ItemId(k - 1))
                            < PositionOf(node_spans, BlockId(ItemId(k - 1)))
            /\ \A j \in DOMAIN file.items : \A k \in DOMAIN file.items :
                  \A a \in {ItemId(j - 1), BlockId(ItemId(j - 1))} \cap ids :
                      \A b \in {ItemId(k - 1), BlockId(ItemId(k - 1))} \cap ids :
                          j < k => PositionOf(node_spans, a) < PositionOf(node_spans, b)

\* C25 witness: the entries of a file that holds a fn whose declaration span
\* is not recorded and whose block span is, an item of a kind with a span
\* whose span is not recorded, and an item of a kind without position
\* metadata
C25_Witness ==
    /\ pc = "annotated"
    /\ \E k \in DOMAIN file.items :
          /\ file.items[k].kind = "Fn"
          /\ ~IsSome(file.items[k].span)
          /\ IsSome(file.items[k].block_span)
          /\ \E i \in DOMAIN node_spans : node_spans[i][1] = BlockId(ItemId(k - 1))
          /\ \A i \in DOMAIN node_spans : node_spans[i][1] # ItemId(k - 1)
    /\ \E k \in DOMAIN file.items :
          /\ file.items[k].kind \in SpanKinds \ {"Fn"}
          /\ ~IsSome(file.items[k].span)
          /\ \A i \in DOMAIN node_spans : node_spans[i][1] # ItemId(k - 1)
    /\ \E k \in DOMAIN file.items : file.items[k].kind \in NoPositionKinds
    /\ Len(node_spans) = 1

\* C30: nothing associated is dropped at apply.  Every kind of item the
\* collector reads a span of has a comment list, every entry of the
\* association map is the comment list of the construct its identifier
\* names, and the constructs hold each comment as often as the map does.
C30_NothingDropped ==
    pc = "annotated" =>
        /\ SpanKinds \subseteq CommentKinds
        /\ \A id \in DOMAIN associations :
              Cardinality({k \in DOMAIN file.items :
                              \/ id = ItemId(k - 1)
                                    /\ file.items[k].comments = associations[id]
                              \/ id = BlockId(ItemId(k - 1))
                                    /\ file.items[k].block_comments = associations[id]}) = 1
        /\ \A c \in Range(comments) :
              HeldTimes(file, c) = Cardinality(PlacesOf(associations, c))

\* C30 witness: a use item was given the comment that follows it on its
\* line
C30_Witness ==
    /\ pc = "annotated"
    /\ \E k \in DOMAIN file.items :
          /\ file.items[k].kind = "Use"
          /\ file.items[k].comments # <<>>

(***************************************************************************)
(* Frame of apply_comment_associations (SpecApply).                        *)
(***************************************************************************)
\* the kinds of item that have no comment list
NoCommentKinds == {"Struct", "Mod", "TraitAlias", "Macro", "ExternCrate", "Verbatim"}

\* what one application may change in item k: the comment list of an item
\* that can carry one and has an entry, the block comment list of a fn
\* whose block has an entry, and nothing else
AppliedTo(before, after, k, assoc) ==
    /\ after.kind = before.kind
    /\ after.span = before.span
    /\ after.block_span = before.block_span
    /\ after.comments =
          IF ItemId(k - 1) \in DOMAIN assoc /\ before.kind \notin NoCommentKinds
          THEN assoc[ItemId(k - 1)] ELSE before.comments
    /\ after.block_comments =
          IF BlockId(ItemId(k - 1)) \in DOMAIN assoc /\ before.kind = "Fn"
          THEN assoc[BlockId(ItemId(k - 1))] ELSE before.block_comments

\* C26: attachment to an incapable construct is a no-op.  A step of
\* apply_comment_associations leaves the tree as it is for every map entry
\* that names an item without a comment list, the block of an item that is
\* no fn, or no item; it applies every other entry; and an item without an
\* entry keeps its lists.
C26_IncapableNoOp ==
    [][pc = "apply" =>
          /\ pc' = "applied"
          /\ DOMAIN file'.items = DOMAIN file.items
          /\ \A k \in DOMAIN file.items :
                AppliedTo(file.items[k], file'.items[k], k, associations)]_vars

\* C26 witness: a map with an entry for a struct, an entry for the block
\* of a use item and an entry for no item was applied, and the use item
\* has its comments
C26_Witness ==
    /\ pc = "applied"
    /\ Len(file.items) = 2
    /\ file.items[1].kind = "Struct" /\ file.items[2].kind = "Use"
    /\ {ItemId(0), ItemId(1), BlockId(ItemId(1)), ItemId(2)} \subseteq DOMAIN associations
    /\ file.items[1].comments = <<>>
    /\ file.items[2].comments = associations[ItemId(1)]

(***************************************************************************)
(* Line comments and reported ranges (SpecExtract).                        *)
(***************************************************************************)
\* the Line comments of line k in a sequence of comments
LineCommentsOf(cs, k) ==
    {i \in DOMAIN cs : cs[i].kind = "Line" /\ cs[i].span.start_line = k}

\* the Line comment that starts at position p of line k and runs to the
\* end of the line
LineCommentAt(line, k, p) ==
    Comment(Trim(Slice(line, p + 2, Len(line))), SpanInfo(k, p, k, Len(line)), "Line")

\* C27: one line comment per line, decided by the first marker.  For every
\* line extract_comments returns at most one Line comment; when the first
\* `//` of the line is outside every quoted region it returns the Line
\* comment that starts there, runs to the end of the line and has the
\* trimmed remainder as text; when the first `//` is inside a quoted
\* region, or the line has none, it returns no Line comment for the line.
C27_FirstMarkerDecides ==
    pc = "extracted" =>
        \A k \in DOMAIN StrLines(source) :
            LET line == StrLines(source)[k]
                marks == MarkersAt(line, "/", "/")
            IN  IF marks # {} /\ ~InQuote(line, MinOf(marks))
                THEN /\ IsOk(extracted)
                     /\ Cardinality(LineCommentsOf(extracted[2], k)) = 1
                     /\ \A i \in LineCommentsOf(extracted[2], k) :
                           extracted[2][i] = LineCommentAt(line, k, MinOf(marks))
                ELSE IsOk(extracted) => LineCommentsOf(extracted[2], k) = {}

\* the columns a comment reports
ColumnsOf(c) == c.span.start_column .. (c.span.end_column - 1)

\* C29: no source text is reported twice.  The column ranges
\* [start_column, end_column) of the comments extract_comments returns for
\* one line are pairwise disjoint.
C29_DisjointRanges ==
    (pc = "extracted" /\ IsOk(extracted)) =>
        \A i \in DOMAIN extracted[2] : \A j \in DOMAIN extracted[2] :
            (i # j /\ extracted[2][i].span.start_line = extracted[2][j].span.start_line) =>
                ColumnsOf(extracted[2][i]) \cap ColumnsOf(extracted[2][j]) = {}

(***************************************************************************)
(* Quote tracking (SpecQuotes).                                            *)
(***************************************************************************)
\* a quote opened before pos has not been closed before pos
OpenQuoteBefore(line, pos) ==
    \E r \in QuotedRegions(line, 0) : r[1] < pos /\ pos <= r[2]

\* the block-open markers of a line that lie in a quoted region
QuotedOpeners(line) == {o \in MarkersAt(line, "/", "*") : InQuote(line, o)}

\* C28: quote tracking within a line.  is_inside_string_literal(line, pos)
\* is true exactly when a quote opened before pos has not been closed by a
\* quote of the same kind that an even number of backslashes precedes; no
\* comment starts after a quote that is not closed; no Block comment starts
\* at an open marker inside quotes; and the block scan of a line passes
\* over its quoted open markers to the first one outside quotes, whose
\* pairs are the Block comments returned.
C28_QuoteTracking ==
    pc = "extracted" =>
        \A k \in DOMAIN StrLines(source) :
            LET line == StrLines(source)[k]
            IN  /\ \A pos \in 0..Len(line) :
                      is_inside_string_literal(line, pos) <=> OpenQuoteBefore(line, pos)
                /\ \A r \in QuotedRegions(line, 0) :
                      (r[2] = Len(line) /\ IsOk(extracted)) =>
                          \A i \in DOMAIN extracted[2] :
                              extracted[2][i].span.start_line = k =>
                                  extracted[2][i].span.start_column < r[1]
                /\ IsOk(extracted) =>
                      \A i \in DOMAIN extracted[2] :
                          IsBlockOfLine(extracted[2][i], k) =>
                              extracted[2][i].span.start_column \notin QuotedOpeners(line)
                /\ OpenersFrom(line, 0) # {} =>
                      block_scan(line, k, 0, <<>>)
                          = block_scan(line, k, MinOf(OpenersFrom(line, 0)), <<>>)
                /\ IsOk(extracted) =>
                      BlocksOfLine(extracted[2], k)
                          = [i \in 1..Len(BlockPairs(line, 0)) |->
                                BlockCommentOf(line, k, BlockPairs(line, 0)[i])]

\* C28 witness: a line with an open marker inside closed quotes and a
\* block comment after them, which was returned
C28_Witness ==
    /\ pc = "extracted" /\ IsOk(extracted)
    /\ \E k \in DOMAIN StrLines(source) :
          /\ \E o \in QuotedOpeners(StrLines(source)[k]) : InClosedQuote(StrLines(source)[k], o)
          /\ BlocksOfLine(extracted[2], k) # <<>>

=============================================================================
